---- MODULE Spec2Model ----
(***************************************************************************)
(* The token-caching authentication client (backend/app/core/auth_client)  *)
(* and the in-memory runtime configuration store it reads                  *)
(* (backend/app/core/runtime_config), with the endpoint that stores the    *)
(* credentials (backend/app/api/endpoints/config).                         *)
(*                                                                         *)
(* The client is a process-wide singleton used by coroutines of one event  *)
(* loop.  A coroutine runs without interruption between two awaits, so one *)
(* call of get_access_token is three steps: from its entry to the awaited  *)
(* client.post (get_access_token), from the response to the awaited exit   *)
(* of the "async with" block (LoginResponse), and from there to its return *)
(* or raise (Return).  Other coroutines, configuration changes and the     *)
(* clock interleave between these steps.                                   *)
(***************************************************************************)
EXTENDS Integers, FiniteSets, Sequences, TLC

\* ---------------------------------------------------------------- bounds
\* operations in one run: calls of get_access_token and get_authorized_client,
\* writes of the configuration store and advances of the clock
MaxOps == 4

\* the coroutines that ask for a token: the first calls get_access_token, the
\* second calls get_authorized_client (which calls get_access_token)
Callers == {"token", "client"}
\* seconds by which the clock advances in one step
TickSteps == {1, 3539, 3550}
\* the expires_in values a login response may carry
ExpiresIns == {70, 3600}
\* the statuses a login response may carry
Statuses == {200, 401}
\* the values the configuration endpoints may store
Urls == {"u1"}
Usernames == {"a1"}
Passwords == {"p1"}
\* the usernames and passwords a request to the credentials endpoint may carry;
\* a username is the sequence of its characters
RequestUsernames == {<<" ", "a", "1", " ">>, <<" ">>}
RequestPasswords == {"p1", ""}
\* the token strings the external API issues, in the order it issues them
TokenNames == <<"t1", "t2", "t3", "t4", "t5", "t6">>

\* ------------------------------------------------------------ Python values
None == "None"
\* bool(x) of an Optional[str]
Truthy(x) == x /= None /\ x /= ""
\* dict.get(key, default)
DictGet(d, k, default) == IF k \in DOMAIN d THEN d[k] ELSE default
\* the empty JSON object
EmptyDict == [k \in {} |-> None]
\* JSON null (Python None) where a number is expected: no number of the model
\* is negative
Null == -1
\* str.strip() of a sequence of characters
Whitespace == {" "}
RECURSIVE strip(_)
strip(s) ==
    IF s = <<>> THEN s
    ELSE IF Head(s) \in Whitespace THEN strip(Tail(s))
    ELSE IF s[Len(s)] \in Whitespace THEN strip(SubSeq(s, 1, Len(s) - 1))
    ELSE s
\* the string a sequence of characters spells
RECURSIVE Str(_)
Str(s) == IF s = <<>> THEN "" ELSE Head(s) \o Str(Tail(s))

\* ---------------------------------------------------------------- settings
EXTERNAL_API_BASE_URL == "u0"
EXTERNAL_API_USERNAME == "a0"
EXTERNAL_API_PASSWORD == "p0"

VARIABLES
    _runtime_config,    \* runtime_config._runtime_config
    _token,             \* AuthClient._token
    _token_expires_at,  \* AuthClient._token_expires_at
    _last_base_url,     \* AuthClient._last_base_url
    _last_username,     \* AuthClient._last_username
    _last_password,     \* AuthClient._last_password
    now,                \* time.time(), in seconds since the process started
    pc,                 \* where each caller's coroutine stands
    req,                \* the locals of _fetch_new_token: the login request sent
    exc,                \* the exception a caller's coroutine carries
    result,             \* what the caller's call returned
    h,                  \* history of each caller's current call
    iss,                \* history: the login that wrote the cached token
    ops,                \* the operations begun so far
    issued              \* the tokens the external API issued so far

cache == <<_token, _token_expires_at, _last_base_url, _last_username, _last_password>>
store == <<_runtime_config>>
procs == <<pc, req, exc, result, h>>
vars == <<_runtime_config, _token, _token_expires_at, _last_base_url,
          _last_username, _last_password, now, pc, req, exc, result, h,
          iss, ops, issued>>

\* ------------------------------------------------------ runtime_config.py
\* a getter that ignores the override
get_external_api_base_url_Default == EXTERNAL_API_BASE_URL

get_external_api_base_url ==
    IF _runtime_config["external_api_base_url"] /= None
    THEN _runtime_config["external_api_base_url"]
    ELSE EXTERNAL_API_BASE_URL

get_external_api_username ==
    IF _runtime_config["external_api_username"] /= None
    THEN _runtime_config["external_api_username"]
    ELSE EXTERNAL_API_USERNAME

get_external_api_password ==
    IF _runtime_config["external_api_password"] /= None
    THEN _runtime_config["external_api_password"]
    ELSE EXTERNAL_API_PASSWORD

ConfigStep ==
    /\ ops < MaxOps
    /\ ops' = ops + 1
    /\ UNCHANGED <<cache, procs, now, iss, issued>>

\* a setter of the base URL that drops the stored credentials
set_external_api_base_url_DropsCredentials(url) ==
    /\ ConfigStep
    /\ _runtime_config' = [k \in DOMAIN _runtime_config |->
                              IF k = "external_api_base_url" THEN url ELSE None]

set_external_api_base_url(url) ==
    /\ ConfigStep
    /\ _runtime_config' = [_runtime_config EXCEPT !["external_api_base_url"] = url]

reset_external_api_base_url ==
    /\ ConfigStep
    /\ _runtime_config' = [_runtime_config EXCEPT !["external_api_base_url"] = None]

set_external_api_username(username) ==
    /\ ConfigStep
    /\ _runtime_config' = [_runtime_config EXCEPT !["external_api_username"] = username]

set_external_api_password(password) ==
    /\ ConfigStep
    /\ _runtime_config' = [_runtime_config EXCEPT !["external_api_password"] = password]

\* ------------------------------------------------- api/endpoints/config.py
\* the response of the credentials endpoint to a request
SetExternalApiCredentialsResponse(request) ==
    LET username == Str(strip(request.username))
        password == request.password
    IN IF ~Truthy(username)
       THEN [success |-> FALSE, message |-> "Username cannot be empty",
             username |-> get_external_api_username]
       ELSE IF ~Truthy(password)
       THEN [success |-> FALSE, message |-> "password cannot be empty",
             username |-> get_external_api_username]
       ELSE [success |-> TRUE, message |-> "updated", username |-> username]

\* a credentials endpoint seen between its two writes: the username is stored,
\* the password not yet
set_external_api_credentials_UsernameFirst(request) ==
    LET username == Str(strip(request.username))
        password == request.password
    IN /\ ConfigStep
       /\ _runtime_config' =
              IF SetExternalApiCredentialsResponse(request).success
              THEN [_runtime_config EXCEPT !["external_api_username"] = username]
              ELSE _runtime_config

\* the credentials endpoint: a coroutine without an await, so one step
set_external_api_credentials(request) ==
    LET username == Str(strip(request.username))
        password == request.password
    IN /\ ConfigStep
       /\ _runtime_config' =
              IF SetExternalApiCredentialsResponse(request).success
              THEN [_runtime_config EXCEPT !["external_api_username"] = username,
                                           !["external_api_password"] = password]
              ELSE _runtime_config

\* ---------------------------------------------------------- the clock
\* a clock whose advance starts a refresh in the background
Tick_BackgroundRefresh(d) ==
    /\ ops < MaxOps
    /\ ops' = ops + 1
    /\ now' = now + d
    /\ pc' = [c \in DOMAIN pc |-> IF pc[c] = "idle" THEN "post" ELSE pc[c]]
    /\ req' = [c \in DOMAIN pc |->
                 IF pc[c] = "idle"
                 THEN [base_url |-> get_external_api_base_url,
                       username |-> get_external_api_username,
                       password |-> get_external_api_password]
                 ELSE req[c]]
    /\ UNCHANGED <<cache, store, exc, result, h, iss, issued>>

Tick(d) ==
    /\ ops < MaxOps
    /\ ops' = ops + 1
    /\ now' = now + d
    /\ UNCHANGED <<cache, store, procs, iss, issued>>

\* ------------------------------------------------------------ auth_client.py
NoRequest == [base_url |-> None, username |-> None, password |-> None]
NoExc == [type |-> None, status |-> 0]
NoResult == [returned |-> FALSE, value |-> None, header |-> <<>>]
NoResponse == [err |-> FALSE, status |-> 0, json |-> EmptyDict]
NoIssue == [at |-> 0, expires_in |-> 0, dflt |-> FALSE]
NoHistory ==
    [n |-> 0, pre |-> None, last |-> NoRequest, same |-> FALSE, left |-> 0, age |-> 0, expires_in |-> 0,
     dflt |-> FALSE, cur |-> NoRequest, after |-> NoRequest, resp |-> NoResponse]

\* the credential triple the store resolves to
CurrentTriple ==
    [base_url |-> IF _runtime_config["external_api_base_url"] = None
                  THEN EXTERNAL_API_BASE_URL
                  ELSE _runtime_config["external_api_base_url"],
     username |-> IF _runtime_config["external_api_username"] = None
                  THEN EXTERNAL_API_USERNAME
                  ELSE _runtime_config["external_api_username"],
     password |-> IF _runtime_config["external_api_password"] = None
                  THEN EXTERNAL_API_PASSWORD
                  ELSE _runtime_config["external_api_password"]]

\* the credential triple the client recorded
LastTriple ==
    [base_url |-> _last_base_url, username |-> _last_username,
     password |-> _last_password]

\* the requests of the calls that ended, since the last call began, with the
\* external API rejecting their login
RejectedRequests ==
    {req[d] : d \in {e \in Callers : pc[e] = "done" /\ exc[e].type = "HTTPStatusError"}}

\* history of a call, taken at its entry:
\*   pre         the token it finds cached
\*   last        the triple it finds recorded
\*   same        whether the recorded triple is the current one
\*   left        the seconds left to the cached expiry
\*   age         the seconds since the login that wrote the cached token
\*   expires_in  the expires_in that login's response carried (0 when it carried none)
\*   dflt        whether that response carried no expires_in
\*   cur         the triple the store resolves to
\*   after       the request of a call that has just ended rejected (NoRequest if none)
\* and, kept as the call goes,
\*   n           the login exchanges it began
\*   resp        the response to its login exchange
Entry ==
    [n |-> 0,
     pre |-> _token,
     last |-> LastTriple,
     same |-> LastTriple = CurrentTriple,
     left |-> IF _token = None \/ _token = "" THEN 0 ELSE _token_expires_at - now,
     age |-> IF _token = None \/ _token = "" THEN 0 ELSE now - iss.at,
     expires_in |-> IF _token = None \/ _token = "" THEN 0 ELSE iss.expires_in,
     dflt |-> IF _token = None \/ _token = "" THEN FALSE ELSE iss.dflt,
     cur |-> CurrentTriple,
     after |-> IF RejectedRequests = {} THEN NoRequest
               ELSE CHOOSE q \in RejectedRequests : TRUE,
     resp |-> NoResponse]

\* credentials_changed with the comparison of the password left out
credentials_changed_NoPassword(current_base_url, current_username, current_password) ==
    \/ (_last_base_url /= None /\ _last_base_url /= current_base_url)
    \/ (_last_username /= None /\ _last_username /= current_username)

\* credentials_changed with the comparison of the base URL left out
credentials_changed_NoBaseUrl(current_base_url, current_username, current_password) ==
    \/ (_last_username /= None /\ _last_username /= current_username)
    \/ (_last_password /= None /\ _last_password /= current_password)

\* get_access_token, lines 37-41
credentials_changed(current_base_url, current_username, current_password) ==
    \/ (_last_base_url /= None /\ _last_base_url /= current_base_url)
    \/ (_last_username /= None /\ _last_username /= current_username)
    \/ (_last_password /= None /\ _last_password /= current_password)

\* _is_token_valid with a buffer of 600 seconds
_is_token_valid_Buffer600(tok, expires_at) ==
    IF ~Truthy(tok) THEN FALSE ELSE now < (expires_at - 600)

\* _is_token_valid without the buffer
_is_token_valid_NoBuffer(tok, expires_at) ==
    IF ~Truthy(tok) THEN FALSE ELSE now < expires_at

\* _is_token_valid, applied to the token and expiry the check left
_is_token_valid(tok, expires_at) ==
    IF ~Truthy(tok) THEN FALSE ELSE now < (expires_at - 60)

\* a client whose Authorization header carries the token without the scheme
Returned_NoScheme(c, tok) ==
    IF c = "client"
    THEN [returned |-> TRUE, value |-> tok, header |-> <<tok>>]
    ELSE [returned |-> TRUE, value |-> tok, header |-> <<>>]

\* what a call that got `tok` from get_access_token hands to its caller
Returned(c, tok) ==
    IF c = "client"
    THEN [returned |-> TRUE, value |-> tok, header |-> <<"Bearer ", tok>>]
    ELSE [returned |-> TRUE, value |-> tok, header |-> <<>>]

\* the record f of the callers, with that of every call that has ended blanked:
\* what a call handed to its caller is kept until the next call begins
Kept(f, blank) == [d \in Callers |-> IF pc[d] = "done" THEN blank ELSE f[d]]

\* get_access_token up to its first await: the credential check, the validity
\* check and, on a miss, _fetch_new_token up to the awaited client.post
Call(c) ==
    /\ pc[c] \in {"idle", "done"}
    /\ ops < MaxOps
    /\ ops' = ops + 1
    /\ LET current_base_url == get_external_api_base_url
           current_username == get_external_api_username
           current_password == get_external_api_password
           changed == credentials_changed(current_base_url, current_username,
                                          current_password)
           tok == IF changed THEN None ELSE _token
           exp == IF changed THEN 0 ELSE _token_expires_at
           valid == _is_token_valid(tok, exp)
           sent == [base_url |-> get_external_api_base_url,
                    username |-> get_external_api_username,
                    password |-> get_external_api_password]
       IN /\ _token' = tok
          /\ _token_expires_at' = exp
          /\ pc' = [Kept(pc, "idle") EXCEPT ![c] = IF valid THEN "done" ELSE "post"]
          /\ req' = [Kept(req, NoRequest) EXCEPT ![c] = IF valid THEN NoRequest ELSE sent]
          /\ exc' = [Kept(exc, NoExc) EXCEPT ![c] = NoExc]
          /\ result' = [Kept(result, NoResult) EXCEPT
                            ![c] = IF valid THEN Returned(c, tok) ELSE NoResult]
          /\ iss' = IF changed THEN NoIssue ELSE iss
          /\ h' = [Kept(h, NoHistory) EXCEPT
                       ![c] = [Entry EXCEPT !.n = IF valid THEN 0 ELSE 1]]
    /\ UNCHANGED <<_last_base_url, _last_username, _last_password, store, now,
                   issued>>

get_access_token == Call("token")

get_authorized_client == Call("client")

\* ------------------------------------------------------ the external API
\* the JSON bodies a login response may carry when the API would issue `tok`
Bodies(tok) ==
    {[access_token |-> tok, expires_in |-> e] : e \in ExpiresIns}
        \cup {[access_token |-> tok], [access_token |-> ""], EmptyDict}
        \cup {[access_token |-> tok, expires_in |-> Null]}

\* what the awaited client.post may produce: a transport failure, or a response
Responses(tok) ==
    {[err |-> TRUE, status |-> 0, json |-> EmptyDict]}
        \cup {[err |-> FALSE, status |-> s, json |-> EmptyDict] : s \in Statuses \ {200}}
        \cup {[err |-> FALSE, status |-> 200, json |-> j] : j \in Bodies(tok)}

\* ------------------------------------------- _fetch_new_token, lines 70-110
\* raise_for_status left out
raise_for_status_Never(status) == FALSE

\* response.raise_for_status(): raises unless the status is a success
raise_for_status(status) == ~(200 <= status /\ status <= 299)

\* the access_token the response carries (line 81)
access_token(r) == DictGet(r.json, "access_token", None)

\* expires_in with a default of half an hour
expires_in_Default1800(r) == DictGet(r.json, "expires_in", 1800)

\* the expires_in the code uses (line 87)
expires_in(r) == DictGet(r.json, "expires_in", 3600)

\* the try block without the check of line 82
TryBlock_NoTokenCheck(r) ==
    IF r.err THEN [type |-> "TransportError", status |-> 0]
    ELSE IF ~(200 <= r.status /\ r.status <= 299)
         THEN [type |-> "HTTPStatusError", status |-> r.status]
    ELSE IF DictGet(r.json, "expires_in", 3600) = Null
         THEN [type |-> "TypeError", status |-> 0]
    ELSE NoExc

\* the exception the try block raises on response r, NoExc when it raises none:
\* a transport failure of client.post, an HTTPStatusError of raise_for_status,
\* the ValueError of line 83, or the TypeError of time.time() + None (line 88)
TryBlock(r) ==
    IF r.err THEN [type |-> "TransportError", status |-> 0]
    ELSE IF raise_for_status(r.status)
         THEN [type |-> "HTTPStatusError", status |-> r.status]
    ELSE IF ~Truthy(access_token(r)) THEN [type |-> "ValueError", status |-> 0]
    ELSE IF expires_in(r) = Null THEN [type |-> "TypeError", status |-> 0]
    ELSE NoExc

\* except clauses that log and do not re-raise
ExceptHandler_Swallow(e) == NoExc

\* the except clauses: log and re-raise
ExceptHandler(e) == e

\* whether the try block reaches the assignment of line 81
ReachesAssignment(r) == ~r.err /\ ~raise_for_status(r.status)

\* a response step that records the triple the store resolves to when the
\* response arrives
LoginResponse_RecordsCurrent(c, r) ==
    /\ pc[c] = "post"
    /\ LET e == ExceptHandler(TryBlock(r))
           stored == ReachesAssignment(r)
           ok == TryBlock(r) = NoExc
       IN /\ _token' = IF stored THEN access_token(r) ELSE _token
          /\ _token_expires_at' = IF ok THEN now + expires_in(r) ELSE _token_expires_at
          /\ _last_base_url' = IF ok THEN get_external_api_base_url ELSE _last_base_url
          /\ _last_username' = IF ok THEN get_external_api_username ELSE _last_username
          /\ _last_password' = IF ok THEN get_external_api_password ELSE _last_password
          /\ exc' = [exc EXCEPT ![c] = e]
          /\ issued' = IF Truthy(access_token(r)) THEN issued + 1 ELSE issued
          /\ iss' = IF ok THEN [at |-> now,
                                expires_in |-> DictGet(r.json, "expires_in", 0),
                                dflt |-> "expires_in" \notin DOMAIN r.json]
                        ELSE IF stored THEN NoIssue ELSE iss
          /\ h' = [h EXCEPT ![c].resp = r]
    /\ pc' = [pc EXCEPT ![c] = "exit"]
    /\ UNCHANGED <<store, now, req, result, ops>>

\* _fetch_new_token from the response to the exit of the "async with" block
LoginResponse(c, r) ==
    /\ pc[c] = "post"
    /\ LET e == ExceptHandler(TryBlock(r))
           stored == ReachesAssignment(r)
           ok == TryBlock(r) = NoExc
       IN /\ _token' = IF stored THEN access_token(r) ELSE _token
          /\ _token_expires_at' = IF ok THEN now + expires_in(r) ELSE _token_expires_at
          /\ _last_base_url' = IF ok THEN req[c].base_url ELSE _last_base_url
          /\ _last_username' = IF ok THEN req[c].username ELSE _last_username
          /\ _last_password' = IF ok THEN req[c].password ELSE _last_password
          /\ exc' = [exc EXCEPT ![c] = e]
          /\ issued' = IF Truthy(access_token(r)) THEN issued + 1 ELSE issued
          /\ iss' = IF ok THEN [at |-> now,
                                expires_in |-> DictGet(r.json, "expires_in", 0),
                                dflt |-> "expires_in" \notin DOMAIN r.json]
                        ELSE IF stored THEN NoIssue ELSE iss
          /\ h' = [h EXCEPT ![c].resp = r]
    /\ pc' = [pc EXCEPT ![c] = "exit"]
    /\ UNCHANGED <<store, now, req, result, ops>>

\* a call that, when its login exchange has failed, sends the login again
Return_Retry(c) ==
    /\ pc[c] = "exit"
    /\ pc' = [pc EXCEPT ![c] = IF exc[c] = NoExc THEN "done" ELSE "post"]
    /\ result' = [result EXCEPT ![c] =
                     IF exc[c] = NoExc THEN Returned(c, _token) ELSE NoResult]
    /\ UNCHANGED <<cache, store, now, req, exc, h, iss, ops, issued>>

\* the exit of the "async with" block, then line 51 or the propagating raise
Return(c) ==
    /\ pc[c] = "exit"
    /\ pc' = [pc EXCEPT ![c] = "done"]
    /\ result' = [result EXCEPT ![c] =
                     IF exc[c] = NoExc THEN Returned(c, _token) ELSE NoResult]
    /\ UNCHANGED <<cache, store, now, req, exc, h, iss, ops, issued>>

\* ---------------------------------------------------------- specification
Init ==
    /\ _runtime_config = [k \in {"external_api_base_url", "external_api_username",
                                 "external_api_password"} |-> None]
    /\ _token = None
    /\ _token_expires_at = 0
    /\ _last_base_url = None
    /\ _last_username = None
    /\ _last_password = None
    /\ now = 0
    /\ pc = [c \in Callers |-> "idle"]
    /\ req = [c \in Callers |-> NoRequest]
    /\ exc = [c \in Callers |-> NoExc]
    /\ result = [c \in Callers |-> NoResult]
    /\ h = [c \in Callers |-> NoHistory]
    /\ iss = NoIssue
    /\ ops = 0
    /\ issued = 0

Environment ==
    \/ \E url \in Urls : set_external_api_base_url(url)
    \/ reset_external_api_base_url
    \/ \E username \in Usernames : set_external_api_username(username)
    \/ \E password \in Passwords : set_external_api_password(password)
    \/ \E username \in RequestUsernames : \E password \in RequestPasswords :
          set_external_api_credentials([username |-> username, password |-> password])
    \/ \E d \in TickSteps : Tick(d)

Progress ==
    \/ \E c \in Callers : \E r \in Responses(TokenNames[issued + 1]) : LoginResponse(c, r)
    \/ \E c \in Callers : Return(c)

Next ==
    \/ get_access_token
    \/ get_authorized_client
    \/ Progress
    \/ Environment

Spec == Init /\ [][Next]_vars

\* no caller but c has a call under way
Quiet(c) == \A d \in Callers \ {c} : pc[d] \in {"idle", "done"}

\* the runs in which calls do not overlap
SeqNext ==
    \/ Quiet("token") /\ get_access_token
    \/ Quiet("client") /\ get_authorized_client
    \/ Progress
    \/ Environment

SeqSpec == Init /\ [][SeqNext]_vars

\* ------------------------------------------------------------- properties
\* a login response as the external API's contract sees it
Rejected(r) == ~r.err /\ r.status >= 400
Malformed(r) ==
    /\ ~r.err
    /\ r.status = 200
    /\ ("access_token" \notin DOMAIN r.json \/ r.json.access_token = "")
Issued(r) == r.json.access_token

\* caller c's login exchange has been answered
Answered(c) == pc[c] \in {"exit", "done"} /\ h[c].n = 1
\* caller c's call found a non-empty token cached
FoundToken(c) == pc[c] /= "idle" /\ h[c].pre /= None /\ h[c].pre /= ""
\* caller c's call returned the token its own login exchange was issued
ReturnedOwn(c) ==
    /\ result[c].returned
    /\ result[c].value = Issued(h[c].resp)
    /\ result[c].value /= h[c].pre
\* this step is the arrival of the response to caller c's login exchange
ResponseStep(c) == pc[c] = "post" /\ pc'[c] = "exit"

\* C1: a call that returns a token without a login exchange found a non-empty
\* token cached and returns it, found the clock strictly more than 60 seconds
\* before the cached expiry, and found the credential triple the store resolves
\* to equal to the recorded one.
C1_CacheHitIsValid ==
    \A c \in Callers :
        (pc[c] = "done" /\ h[c].n = 0) =>
            /\ result[c].returned
            /\ result[c].value = h[c].pre
            /\ h[c].pre /= None /\ h[c].pre /= ""
            /\ h[c].left > 60
            /\ h[c].same

C1_Witness ==
    \E c \in Callers :
        pc[c] = "done" /\ h[c].n = 0 /\ result[c].returned /\ result[c].value = "t1"

\* C2: at most one login exchange is in flight at any time.
C2_RefreshCoalescing == Cardinality({c \in Callers : pc[c] = "post"}) <= 1

\* C3: a call that finds a non-empty, unexpired token recorded for a triple
\* other than the one the store resolves to performs exactly one login
\* exchange, sends it the current triple and, when the exchange succeeds,
\* returns the token that exchange issued and not the one it found.
C3_CredentialChangeInvalidates ==
    \A c \in Callers :
        (FoundToken(c) /\ h[c].left > 60 /\ ~h[c].same) =>
            /\ h[c].n = 1
            /\ req[c] = h[c].cur
            /\ (pc[c] = "done" /\ exc[c] = NoExc => ReturnedOwn(c))

C3_Witness ==
    \E c \in Callers :
        /\ FoundToken(c) /\ h[c].left > 60 /\ ~h[c].same
        /\ pc[c] = "done" /\ ReturnedOwn(c)

\* C4: a call that finds a token cached by a login made E - 60 seconds ago or
\* less, E being the expires_in of that login's response, with the credential
\* triple unchanged, performs no login exchange and returns that token.
C4_CacheHit ==
    \A c \in Callers :
        (FoundToken(c) /\ h[c].same /\ ~h[c].dflt /\ h[c].age < h[c].expires_in - 60) =>
            /\ h[c].n = 0
            /\ pc[c] = "done"
            /\ result[c].returned
            /\ result[c].value = h[c].pre

C4_Witness ==
    \E c \in Callers :
        /\ FoundToken(c) /\ h[c].same /\ h[c].expires_in = 3600 /\ h[c].age > 0
        /\ h[c].age < 3540
        /\ h[c].n = 0 /\ result[c].value = h[c].pre

\* C5: a call that finds a token cached by a login whose response carried
\* expires_in = E, with the credential triple unchanged, E - 60 seconds or more
\* after that login, performs exactly one login exchange and, when the exchange
\* succeeds, returns the token that exchange issued and not the cached one.
C5_ExpiryRefresh ==
    \A c \in Callers :
        (FoundToken(c) /\ h[c].same /\ ~h[c].dflt /\ h[c].age >= h[c].expires_in - 60) =>
            /\ h[c].n = 1
            /\ (pc[c] = "done" /\ exc[c] = NoExc => ReturnedOwn(c))

C5_Witness ==
    \E c \in Callers :
        /\ FoundToken(c) /\ h[c].same /\ h[c].expires_in = 3600 /\ h[c].age = 3550
        /\ pc[c] = "done" /\ ReturnedOwn(c)

\* C6, as the specification states it: with a token cached by a login whose
\* response carried no expires_in, a call 3540 seconds after that login returns
\* the cached token without a login exchange, and a call 3550 seconds after it
\* performs one.
C6_DefaultExpiryAsStated ==
    \A c \in Callers :
        (FoundToken(c) /\ h[c].same /\ h[c].dflt) =>
            /\ (h[c].age = 3540 => h[c].n = 0)
            /\ (h[c].age = 3550 => h[c].n = 1)

\* C6, amended: such a token expires exactly 3600 seconds after that login, and
\* a call returns it without a login exchange exactly when it is made less than
\* 3540 seconds after that login.
C6_DefaultExpiry ==
    \A c \in Callers :
        (FoundToken(c) /\ h[c].same /\ h[c].dflt) =>
            /\ h[c].left = 3600 - h[c].age
            /\ (h[c].n = 0 <=> h[c].age < 3540)

C6_Witness ==
    /\ \E c \in Callers :
          FoundToken(c) /\ h[c].same /\ h[c].dflt /\ h[c].age = 3540 /\ h[c].n = 1

\* C7: the arrival of a response that makes the call fail (transport failure,
\* non-success status, or success status without access_token) leaves the
\* expiry and the recorded triple as they were, leaves a cached token
\* untouched, and leaves a discarded token discarded.
C7_NoPartialStateOnFailure ==
    [][\A c \in Callers :
        (/\ ResponseStep(c)
         /\ exc'[c].type \in {"TransportError", "HTTPStatusError", "ValueError"}) =>
            /\ _token_expires_at' = _token_expires_at
            /\ LastTriple' = LastTriple
            /\ (IF _token = None \/ _token = ""
                THEN _token' = None \/ _token' = ""
                ELSE _token' = _token)]_vars

\* C8: a call whose login response has a success status and no (or an empty)
\* access_token fails with an error and returns nothing; the arrival of that
\* response leaves no usable token cached; and a call that finds no usable token
\* cached performs a login exchange.
C8_MalformedResponse ==
    /\ [](\A c \in Callers :
            (Answered(c) /\ Malformed(h[c].resp)) =>
                exc[c].type = "ValueError" /\ ~result[c].returned)
    /\ [][\A c \in Callers :
            (ResponseStep(c) /\ Malformed(h'[c].resp)) =>
                (_token' = None \/ _token' = "")]_vars
    /\ [](\A c \in Callers :
            (pc[c] /= "idle" /\ (h[c].pre = None \/ h[c].pre = "")) => h[c].n = 1)

C8_Witness ==
    \E c \in Callers :
        /\ pc[c] = "done" /\ h[c].n = 1 /\ Malformed(h[c].resp)
        /\ FoundToken(c)
        /\ ~result[c].returned

\* C9: a call whose login response has a non-success status fails with an error
\* carrying that status, and the arrival of that response changes nothing
\* cached; the call that follows a rejected one performs a login exchange with
\* the triple the store then resolves to and, when that exchange succeeds,
\* returns the token it issued; and the arrival of a successful response caches
\* the issued token, its expiry and the triple sent.
C9_RejectedThenRecovered ==
    /\ [](\A c \in Callers :
            (Answered(c) /\ Rejected(h[c].resp)) =>
                /\ exc[c] = [type |-> "HTTPStatusError", status |-> h[c].resp.status]
                /\ ~result[c].returned)
    /\ [][\A c \in Callers :
            (ResponseStep(c) /\ Rejected(h'[c].resp)) => cache' = cache]_vars
    /\ [](\A c \in Callers :
            (pc[c] /= "idle" /\ h[c].after /= NoRequest) =>
                /\ h[c].n = 1
                /\ req[c] = h[c].cur
                /\ (pc[c] = "done" /\ exc[c] = NoExc => ReturnedOwn(c)))
    /\ [][\A c \in Callers :
            (ResponseStep(c) /\ exc'[c] = NoExc) =>
                /\ _token' = Issued(h'[c].resp)
                /\ _token' /= None /\ _token' /= ""
                /\ _token_expires_at' > now + 60
                /\ LastTriple' = req[c]]_vars

C9_Witness ==
    \E c \in Callers :
        /\ pc[c] = "done" /\ h[c].after /= NoRequest /\ h[c].cur /= h[c].after
        /\ ReturnedOwn(c)
        /\ _token = result[c].value /\ LastTriple = h[c].cur

\* C10: a call whose login exchange fails (transport failure, non-success
\* status, or success status without access_token) ends raising the error of
\* that failure; it returns no token and no client.
C10_NoSilentFallback ==
    \A c \in Callers :
        (pc[c] = "done" /\ h[c].n = 1
            /\ (h[c].resp.err \/ Rejected(h[c].resp) \/ Malformed(h[c].resp))) =>
            /\ result[c] = NoResult
            /\ exc[c].type = (IF h[c].resp.err THEN "TransportError"
                              ELSE IF Rejected(h[c].resp) THEN "HTTPStatusError"
                              ELSE "ValueError")

C10_Witness ==
    \E c \in Callers :
        /\ pc[c] = "done" /\ h[c].n = 1 /\ h[c].resp.err
        /\ FoundToken(c) /\ _token = h[c].pre
        /\ result[c] = NoResult /\ exc[c].type = "TransportError"

\* this step sends the login request of caller c
LoginBegins(c) == pc[c] /= "post" /\ pc'[c] = "post"

\* C11: one call sends at most one login request, whether the exchange
\* succeeds or fails: a login request is sent only by the step that begins a
\* call, the arrival of its response (whatever the response) is followed by
\* nothing but the end of the call, and a call counts at most one exchange.
C11_NoInternalRetry ==
    [][\A c \in Callers :
        /\ (LoginBegins(c) =>
                pc[c] \in {"idle", "done"} /\ ops' = ops + 1 /\ h'[c].n = 1)
        /\ (pc[c] = "post" => pc'[c] \in {"post", "exit"})
        /\ (pc[c] = "exit" => pc'[c] \in {"exit", "done"})
        /\ h'[c].n <= 1]_vars

C11_Witness ==
    \E c \in Callers :
        /\ pc[c] = "done" /\ h[c].n = 1 /\ Rejected(h[c].resp)
        /\ exc[c].type = "HTTPStatusError"
        /\ \A d \in Callers : pc[d] /= "post"

\* C12: for each key, the getter returns the override when one is stored and
\* the default otherwise, and never None; a set makes the getter return the
\* value set, a reset of the base URL makes it return the default, and the
\* value the getter returns changes in no other step.
C12_ConfigStore ==
    /\ [](/\ get_external_api_base_url =
               IF _runtime_config["external_api_base_url"] = None
               THEN EXTERNAL_API_BASE_URL
               ELSE _runtime_config["external_api_base_url"]
          /\ get_external_api_username =
               IF _runtime_config["external_api_username"] = None
               THEN EXTERNAL_API_USERNAME
               ELSE _runtime_config["external_api_username"]
          /\ get_external_api_password =
               IF _runtime_config["external_api_password"] = None
               THEN EXTERNAL_API_PASSWORD
               ELSE _runtime_config["external_api_password"]
          /\ None \notin {get_external_api_base_url, get_external_api_username,
                           get_external_api_password})
    /\ [][/\ \A url \in Urls :
               set_external_api_base_url(url) => get_external_api_base_url' = url
          /\ reset_external_api_base_url =>
               get_external_api_base_url' = EXTERNAL_API_BASE_URL
          /\ \A username \in Usernames :
               set_external_api_username(username) =>
                   get_external_api_username' = username
          /\ \A password \in Passwords :
               set_external_api_password(password) =>
                   get_external_api_password' = password
          /\ (get_external_api_base_url' /= get_external_api_base_url =>
                 \/ \E url \in Urls : set_external_api_base_url(url)
                 \/ reset_external_api_base_url)
          /\ (get_external_api_username' /= get_external_api_username =>
                 \/ \E username \in Usernames : set_external_api_username(username)
                 \/ \E username \in RequestUsernames : \E password \in RequestPasswords :
                       set_external_api_credentials(
                           [username |-> username, password |-> password]))
          /\ (get_external_api_password' /= get_external_api_password =>
                 \/ \E password \in Passwords : set_external_api_password(password)
                 \/ \E username \in RequestUsernames : \E password \in RequestPasswords :
                       set_external_api_credentials(
                           [username |-> username, password |-> password]))]_vars

\* a call read the override of the base URL, the base URL has since been reset
\* and the getter returns the default, while the username override is read
C12_Witness ==
    \E c \in Callers :
        /\ pc[c] /= "idle" /\ h[c].cur.base_url = "u1"
        /\ _runtime_config["external_api_base_url"] = None
        /\ get_external_api_base_url = EXTERNAL_API_BASE_URL
        /\ get_external_api_username = "a1"

\* C14: a set or reset of one key leaves the overrides stored for the other
\* two keys, and the values their getters return, as they were.
C14_ConfigKeysIndependent ==
    [][/\ ((\/ \E url \in Urls : set_external_api_base_url(url)
            \/ reset_external_api_base_url) =>
              /\ _runtime_config'["external_api_username"] =
                    _runtime_config["external_api_username"]
              /\ _runtime_config'["external_api_password"] =
                    _runtime_config["external_api_password"]
              /\ get_external_api_username' = get_external_api_username
              /\ get_external_api_password' = get_external_api_password)
       /\ ((\E username \in Usernames : set_external_api_username(username)) =>
              /\ _runtime_config'["external_api_base_url"] =
                    _runtime_config["external_api_base_url"]
              /\ _runtime_config'["external_api_password"] =
                    _runtime_config["external_api_password"]
              /\ get_external_api_base_url' = get_external_api_base_url
              /\ get_external_api_password' = get_external_api_password)
       /\ ((\E password \in Passwords : set_external_api_password(password)) =>
              /\ _runtime_config'["external_api_base_url"] =
                    _runtime_config["external_api_base_url"]
              /\ _runtime_config'["external_api_username"] =
                    _runtime_config["external_api_username"]
              /\ get_external_api_base_url' = get_external_api_base_url
              /\ get_external_api_username' = get_external_api_username)]_vars

\* the base URL has been set and reset with the two credentials overridden
C14_Witness ==
    \E c \in Callers :
        /\ pc[c] /= "idle" /\ h[c].cur = [base_url |-> "u1", username |-> "a1",
                                            password |-> "p1"]
        /\ _runtime_config = [external_api_base_url |-> None,
                              external_api_username |-> "a1",
                              external_api_password |-> "p1"]

\* the token caller c's call found cached was written by a successful login
FoundIssued(c) == FoundToken(c) /\ (h[c].dflt \/ h[c].expires_in > 0)

\* C13: the triple a login request carries is the one the store resolved to
\* when the call began and is not changed while the request is in flight; a
\* successful response records exactly that triple, whatever the store holds
\* by then; and a call that finds a token of a successful login recorded for
\* a triple other than the current one discards it and sends a login request
\* with the current triple.
C13_RecordedTripleIsSentTriple ==
    /\ [](\A c \in Callers :
            (pc[c] /= "idle" /\ h[c].n = 1) => req[c] = h[c].cur)
    /\ [][\A c \in Callers :
            /\ (pc[c] = "post" => req'[c] = req[c])
            /\ ((ResponseStep(c) /\ exc'[c] = NoExc) => LastTriple' = req[c])]_vars
    /\ [](\A c \in Callers :
            (FoundIssued(c) /\ ~h[c].same) =>
                /\ h[c].n = 1
                /\ req[c] = h[c].cur
                /\ _token /= h[c].pre)

\* a login was in flight when the store changed (the other caller began its
\* call after the change and before the response), it succeeded, and the next
\* call found its token recorded for the triple sent and discarded it
C13_Witness ==
    \E c \in Callers : \E d \in Callers \ {c} :
        /\ pc[d] = "post" /\ h[d].last = NoRequest /\ h[d].cur = CurrentTriple
        /\ pc[c] = "post" /\ FoundIssued(c) /\ ~h[c].same /\ h[c].n = 1
        /\ req[c] = CurrentTriple
        /\ LastTriple /= CurrentTriple /\ _last_base_url /= None
        /\ _token = None
        /\ ops = 4

\* C15: a call of get_authorized_client sends at most one login request, and
\* only as it begins; its first step changes the cache as the credential check
\* of get_access_token does and its last step does not change it; when its
\* login exchange fails it raises and returns no client; otherwise it returns
\* a client whose Authorization header is "Bearer " followed by the token
\* get_access_token returned to it.
C15_AuthorizedClient ==
    /\ [](/\ h["client"].n <= 1
          /\ (pc["client"] = "done" /\ exc["client"] /= NoExc =>
                result["client"] = NoResult)
          /\ (pc["client"] = "done" /\ exc["client"] = NoExc =>
                /\ result["client"].returned
                /\ result["client"].header = <<"Bearer ", result["client"].value>>)
          /\ (pc["client"] = "done" /\ h["client"].n = 0 =>
                result["client"].value = h["client"].pre)
          /\ (pc["client"] /= "done" => ~result["client"].returned))
    /\ [][/\ (LoginBegins("client") => pc["client"] \in {"idle", "done"})
          /\ (get_authorized_client =>
                cache' = IF credentials_changed(get_external_api_base_url,
                                                get_external_api_username,
                                                get_external_api_password)
                         THEN <<None, 0, _last_base_url, _last_username,
                                _last_password>>
                         ELSE cache)
          /\ (pc["client"] = "exit" /\ pc'["client"] = "done" =>
                /\ cache' = cache
                /\ (exc["client"] = NoExc =>
                      result'["client"].header = <<"Bearer ", _token>>))]_vars

C15_Witness ==
    /\ pc["client"] = "done" /\ h["client"].n = 1 /\ exc["client"] = NoExc
    /\ result["client"].header = <<"Bearer ", "t1">>
    /\ _token = "t1"

\* C16: a login request is sent only by the first step of a call of
\* get_access_token or get_authorized_client, by the caller of that call (so
\* the logins of a run are no more than its calls); a response arrives only
\* for a call that has sent its request and has not returned; and a write of
\* the configuration store or an advance of the clock sends no request and
\* changes neither the cache nor any call.
C16_LazyRefreshOnly ==
    /\ [](\A c \in Callers :
            pc[c] \in {"post", "exit"} => h[c].n = 1 /\ ~result[c].returned)
    /\ [][/\ \A c \in Callers : LoginBegins(c) => Call(c)
          /\ (issued' /= issued \/ cache' /= cache =>
                \/ \E c \in Callers : ResponseStep(c)
                \/ get_access_token
                \/ get_authorized_client)
          /\ (Environment => UNCHANGED <<cache, procs, issued>>)]_vars

\* the clock has passed the cached expiry and the store was written; nothing
\* refreshed the token until a call found it expired and logs in
C16_Witness ==
    \E c \in Callers :
        /\ pc[c] = "post" /\ FoundIssued(c) /\ h[c].same /\ h[c].left <= 60
        /\ h[c].pre = _token
        /\ _runtime_config["external_api_base_url"] = "u1"
        /\ \A d \in Callers \ {c} : pc[d] = "idle"

\* C17: a call that returns (does not raise) returns a non-empty token string,
\* never None, under every interleaving of calls and configuration changes.
C17_ReturnsNonEmptyToken ==
    \A c \in Callers :
        result[c].returned => result[c].value /= None /\ result[c].value /= ""

\* C18: a call whose own login exchange succeeded and that returns a token
\* returns the token that exchange issued, not one another caller's exchange
\* wrote to the cache, under every interleaving of calls.
C18_ReturnsOwnToken ==
    \A c \in Callers :
        (pc[c] = "done" /\ h[c].n = 1 /\ exc[c] = NoExc
            /\ result[c].value /= None /\ result[c].value /= "") =>
            /\ result[c].returned
            /\ result[c].value = Issued(h[c].resp)

\* C19: whenever the cached token is non-empty, the three recorded fields are
\* set; and a step that caches a non-empty token, or that changes the expiry
\* or the recorded triple of one, is the arrival of a successful login
\* response, which writes the token it issued, the expiry it gives and the
\* triple its request carried together.
C19_CacheConsistency ==
    /\ []((_token /= None /\ _token /= "") =>
            /\ _last_base_url /= None
            /\ _last_username /= None
            /\ _last_password /= None)
    /\ [][(/\ _token' /= None /\ _token' /= ""
           /\ cache' /= cache) =>
              \E c \in Callers :
                  /\ ResponseStep(c)
                  /\ exc'[c] = NoExc
                  /\ _token' = Issued(h'[c].resp)
                  /\ _token_expires_at' = now + expires_in(h'[c].resp)
                  /\ LastTriple' = req[c]]_vars

\* the requests the credentials endpoint may receive
CredentialsRequests ==
    {[username |-> u, password |-> p] : u \in RequestUsernames, p \in RequestPasswords}
\* the username of a request without its blanks
Unblanked(q) == Str(SelectSeq(q.username, LAMBDA ch : ch /= " "))

\* C20: a request to the credentials endpoint whose username is blank or
\* whose password is empty is answered success = false and leaves the store
\* as it was; any other request is answered success = true and, in one step,
\* makes the store resolve to its stripped username and its password, the base
\* URL untouched; and a login request carries the username and the password
\* the store resolves to in one and the same state, the one in which the call
\* begins: never the username of a request with the password that preceded it.
C20_CredentialsAsOneUnit ==
    [][/\ \A q \in CredentialsRequests :
            (ops' /= ops /\ now' = now /\ pc' = pc
                /\ set_external_api_credentials(q)) =>
                IF Unblanked(q) = "" \/ q.password = ""
                THEN /\ _runtime_config' = _runtime_config
                     /\ ~SetExternalApiCredentialsResponse(q).success
                ELSE /\ get_external_api_username' = Unblanked(q)
                     /\ get_external_api_password' = q.password
                     /\ _runtime_config'["external_api_base_url"] =
                           _runtime_config["external_api_base_url"]
                     /\ SetExternalApiCredentialsResponse(q).success
       /\ \A c \in Callers :
            LoginBegins(c) =>
                /\ req'[c].username = get_external_api_username
                /\ req'[c].password = get_external_api_password
                /\ _runtime_config' = _runtime_config]_vars

\* a token was cached for the default credentials, one write of the store
\* (a request to the credentials endpoint) replaced both, and the next call
\* sends the new username with the new password
C20_Witness ==
    \E c \in Callers :
        /\ pc[c] = "post" /\ FoundIssued(c)
        /\ h[c].last = [base_url |-> EXTERNAL_API_BASE_URL,
                        username |-> EXTERNAL_API_USERNAME,
                        password |-> EXTERNAL_API_PASSWORD]
        /\ req[c] = [base_url |-> EXTERNAL_API_BASE_URL, username |-> "a1",
                     password |-> "p1"]
        /\ ops = 3

====
